---- MODULE Spec2Model ----
(***************************************************************************)
(* ServerOptimizerPlugin (server_optimizer_plugin.py): the rolling-window  *)
(* TPS estimator, the view-distance controller, the overload monitor, the  *)
(* emergency recovery with its delayed restoration, the optimization      *)
(* actions, the health scorer and the lag alert cooldown.                  *)
(*                                                                         *)
(* Time is in milliseconds (time.time() * 1000); a TPS value is the exact   *)
(* rational num/den, compared by cross-multiplication.                      *)
(***************************************************************************)
EXTENDS Integers, Sequences, FiniteSets, TLC

(* ------------------------------------------------------------------ *)
(* Bounds of the model                                                 *)
(* ------------------------------------------------------------------ *)
MaxTicks == 1           \* monitor_performance runs after the initial window
MaxMonitorTicks == 2    \* the same, in the runs of the monitoring side alone
SteadyTicks == 5900     \* ticks run before the steady state of long uptimes
MaxClockJumps == 1      \* jumps of the wall clock
MaxHealthChecks == 2    \* check_server_health runs after the initial history
MaxCrowdChanges == 1    \* changes of the number of players online
MaxOverloadRuns == 2    \* monitor_overload runs counted
MaxFastRuns == 1        \* fast_optimization_check runs counted
MaxAdjustRuns == 2      \* adjust_view_distance runs counted
MaxDisplayRuns == 2     \* update_performance_display runs counted
MaxOptimizations == 1   \* optimization passes outside the emergency entry
MaxEmergencies == 2     \* emergency_crash_recovery entries
MaxSchedulerSteps == 2  \* advances of the scheduler's tick counter
ClockAtLoad == 1000000  \* time.time() at on_load, ms
SchedulerStep == 3000   \* ticks per advance of the scheduler's tick counter

(* ------------------------------------------------------------------ *)
(* Program constants (on_load)                                         *)
(* ------------------------------------------------------------------ *)
tick_times_maxlen == 200
tps_history_maxlen == 60
health_history_maxlen == 60
warmup_samples == 20
optimization_interval == 120
max_chunks_per_player == 64
base_view_distance == 8
min_view_distance == 4
max_view_distance == 12
tps_critical == 15
tps_warning == 18
lag_alert_cooldown == 60
max_players_critical == 100
max_chunks_critical == 5000
restore_delay == 6000
auto_optimize == TRUE

(* ------------------------------------------------------------------ *)
(* Inputs                                                              *)
(* ------------------------------------------------------------------ *)
TickDurations == {50, 100}             \* ms from one tick to the next
\* ms the wall clock (time.time()) moves with no tick: time passing, and the
\* clock being set back by 1 s and by 5 s
ClockJumps == {120000, 0 - 1000, 0 - 5000}
Ops == {"op1"}                         \* players with is_op / serveropt.admin
Names == {"op1", "p2"}                 \* the players with a name in the model

(* ------------------------------------------------------------------ *)
(* Rational TPS values                                                 *)
(* ------------------------------------------------------------------ *)
RECURSIVE Gcd(_, _)
Gcd(a, b) == IF b = 0 THEN a ELSE Gcd(b, a % b)
Abs(a) == IF a < 0 THEN 0 - a ELSE a
\* the float n / d (d > 0), kept as a fraction in lowest terms
Tps(n, d) ==
    LET g == Gcd(Abs(n), d)
    IN  [num |-> n \div g, den |-> d \div g]
Tps20 == Tps(20, 1)
\* t < a/b and t >= a/b; every Tps has den > 0, and b > 0
TpsLT(t, a, b) == t.num * b < a * t.den
TpsGE(t, a, b) == ~TpsLT(t, a, b)

\* sum(s[lo..hi]), adding the two halves so that the nesting stays shallow
RECURSIVE SumRange(_, _, _)
SumRange(s, lo, hi) ==
    IF lo > hi THEN 0
    ELSE IF lo = hi THEN s[lo]
    ELSE LET mid == (lo + hi) \div 2
         IN  SumRange(s, lo, mid) + SumRange(s, mid + 1, hi)
SeqSum(s) == SumRange(s, 1, Len(s))

\* deque(maxlen=cap).append(x): the oldest element is dropped beyond cap
DequeAppend(q, x, cap) ==
    IF Len(q) >= cap THEN Append(Tail(q), x) ELSE Append(q, x)

\* min(20.0, 1.0 / avg_tick_time) for avg_tick_time = total / (1000 * n) seconds
CappedRate(n, total) ==
    IF total < 0 THEN Tps(0 - 1000 * n, 0 - total)
    ELSE IF 1000 * n >= 20 * total THEN Tps20
    ELSE Tps(1000 * n, total)

\* (mutant) the average of the last warmup_samples samples only
calculate_tps_LastTwenty(w) ==
    IF Len(w) < warmup_samples THEN Tps20
    ELSE LET recent == SubSeq(w, Len(w) - warmup_samples + 1, Len(w))
             total == SeqSum(recent)
         IN  IF total = 0 THEN Tps20
             ELSE CappedRate(warmup_samples, total)

\* calculate_tps over the window w of tick durations (ms)
calculate_tps(w) ==
    IF Len(w) < warmup_samples THEN Tps20
    ELSE LET total == SeqSum(w)
             n == Len(w)
         IN  IF total = 0 THEN Tps20
             ELSE CappedRate(n, total)

VARIABLES
    tick_times, tps_history, last_tick,
    aggressive_mode, last_optimization,
    loaded_chunks,
    auto_view_distance, current_view_distance,
    total_optimizations, chunks_cleared_total, entities_removed_total,
    memory_cleanups,
    last_lag_alert,
    health_score, health_history,
    clock, online_players, crowd, performance_viewers, unreachable,
    tick, restore_timers,
    alerts, reported, done

vars == << tick_times, tps_history, last_tick,
           aggressive_mode, last_optimization,
           loaded_chunks,
           auto_view_distance, current_view_distance,
           total_optimizations, chunks_cleared_total, entities_removed_total,
           memory_cleanups,
           last_lag_alert,
           health_score, health_history,
           clock, online_players, crowd, performance_viewers, unreachable,
           tick, restore_timers,
           alerts, reported, done >>

\* Variable groups, for the frame conditions
windowVars == << tick_times, tps_history, last_tick >>
viewVars == << auto_view_distance, current_view_distance >>
counterVars == << total_optimizations, chunks_cleared_total, entities_removed_total,
                 memory_cleanups >>
healthVars == << health_score, health_history >>
schedVars == << tick, restore_timers >>
\* every variable but the step counts
stateVars == << windowVars, aggressive_mode, last_optimization, loaded_chunks,
               viewVars, counterVars, last_lag_alert, healthVars, clock,
               online_players, crowd, performance_viewers, unreachable, schedVars,
               alerts, reported >>

\* len(self.server.online_players)
OnlineCount == Cardinality(online_players) + crowd

\* players for whom player.is_op or player.has_permission("serveropt.admin")
AdminsOnline == online_players \cap Ops

\* done counts the steps of each kind taken so far (history, and the budgets)
Count(what) == done' = [done EXCEPT ![what] = @ + 1]
Keep == UNCHANGED done

(* ------------------------------------------------------------------ *)
(* notify_admins_lag: the new last_lag_alert and the recipients        *)
(* ------------------------------------------------------------------ *)
\* (mutant) no cooldown
LagAlertDue_Always(now, last) == TRUE

LagAlertDue(now, last) == ~(now - last < lag_alert_cooldown * 1000)

\* at: the time of the call; burst: messages were sent; sent: to whom;
\* last: last_lag_alert when the call returns
notify_admins_lag(now, last, admins) ==
    IF LagAlertDue(now, last)
    THEN [at |-> now, burst |-> TRUE, sent |-> admins, last |-> now]
    ELSE [at |-> now, burst |-> FALSE, sent |-> {}, last |-> last]

\* alerts keeps the last two calls of notify_admins_lag (history)
LastTwo(calls) == IF Len(calls) > 2 THEN Tail(calls) ELSE calls

(* ------------------------------------------------------------------ *)
(* monitor_performance (every tick), as a function of the fields it    *)
(* reads and writes: m is the record of tick_times, tps_history,       *)
(* last_tick, loaded_chunks, last_lag_alert; now is time.time()        *)
(* ------------------------------------------------------------------ *)
monitor_performance(m, now, online, admins) ==
    LET tick_duration == now - m.last_tick
        window == DequeAppend(m.tick_times, tick_duration, tick_times_maxlen)
        tps == calculate_tps(window)
        critical == TpsLT(tps, tps_critical, 1)
        alert == notify_admins_lag(now, m.last_lag_alert, admins)
    IN  [tick_times |-> window,
         tps_history |-> DequeAppend(m.tps_history, tps, tps_history_maxlen),
         last_tick |-> now,
         loaded_chunks |-> online * max_chunks_per_player,
         last_lag_alert |-> IF critical THEN alert.last ELSE m.last_lag_alert,
         alerts |-> IF critical THEN LastTwo(Append(m.alerts, alert)) ELSE m.alerts]

MonitorPerformance(d) ==
    LET m == monitor_performance(
                 [tick_times |-> tick_times, tps_history |-> tps_history,
                  last_tick |-> last_tick, loaded_chunks |-> loaded_chunks,
                  last_lag_alert |-> last_lag_alert, alerts |-> alerts],
                 clock + d, OnlineCount, AdminsOnline)
    IN  /\ clock' = clock + d
        /\ last_tick' = m.last_tick
        /\ tick_times' = m.tick_times
        /\ tps_history' = m.tps_history
        /\ loaded_chunks' = m.loaded_chunks
        /\ last_lag_alert' = m.last_lag_alert
        /\ alerts' = m.alerts
        /\ UNCHANGED << aggressive_mode, last_optimization, viewVars, counterVars,
                        healthVars, online_players, crowd, performance_viewers, unreachable, schedVars, reported >>

(* ------------------------------------------------------------------ *)
(* on_load, and the first ticks after on_enable                        *)
(* ------------------------------------------------------------------ *)
\* the fields of on_load that monitor_performance works on
OnLoadMonitor ==
    [tick_times |-> <<>>, tps_history |-> <<>>, last_tick |-> ClockAtLoad,
     loaded_chunks |-> 0, last_lag_alert |-> 0, alerts |-> <<>>]

\* monitor_performance run once per duration of the script, from the state m
RECURSIVE RunTicks(_, _, _, _)
RunTicks(m, script, online, admins) ==
    IF script = <<>> THEN m
    ELSE IF Len(script) = 1
    THEN monitor_performance(m, m.last_tick + script[1], online, admins)
    ELSE LET half == Len(script) \div 2
             mid == RunTicks(m, SubSeq(script, 1, half), online, admins)
         \* the state after the first half is computed before the second runs
         IN  IF Len(mid.tick_times) >= 0
             THEN RunTicks(mid, SubSeq(script, half + 1, Len(script)), online, admins)
             ELSE m

\* n ticks of d ms each
Rep(n, d) == [i \in 1..n |-> d]
\* a window of n ticks of which the first `slow` took 100 ms, the others 50 ms
Script(n, slow) == Rep(slow, 100) \o Rep(n - slow, 50)

\* The state on_load leaves, with monitor_performance (delay 0, period 1) run
\* once per duration of the script since: every other task of on_enable is
\* first due at tick 40 or later.
InitAfter(script, named, others) ==
    LET m == RunTicks(OnLoadMonitor, script,
                      Cardinality(named) + others, named \cap Ops)
    IN  /\ tick_times = m.tick_times
        /\ tps_history = m.tps_history
        /\ last_tick = m.last_tick
        /\ clock = m.last_tick
        /\ loaded_chunks = m.loaded_chunks
        /\ last_lag_alert = m.last_lag_alert
        /\ aggressive_mode = FALSE
        /\ last_optimization = 0
        /\ auto_view_distance = TRUE
        /\ current_view_distance = base_view_distance
        /\ total_optimizations = 0
        /\ chunks_cleared_total = 0
        /\ entities_removed_total = 0
        /\ memory_cleanups = 0
        /\ health_score = 100
        /\ health_history = <<>>
        /\ reported = [chunks |-> 0, entities |-> 0]
        /\ online_players = named
        /\ crowd = others
        /\ performance_viewers = {}
        /\ unreachable = {}
        /\ tick = 0
        /\ restore_timers = <<>>
        /\ alerts = m.alerts
        /\ done = [ticks |-> 0, emergencies |-> 0, restorations |-> 0,
                   sched_steps |-> 0, crowd_changes |-> 0, overload_runs |-> 0,
                   fast_runs |-> 0, adjust_runs |-> 0, auto_runs |-> 0, memory_runs |-> 0,
                   display_runs |-> 0,
                   clock_jumps |-> 0, optimizations |-> 0, health_checks |-> 0]

\* slow ticks among the first warmup_samples: TPS 20, 18.2, 16.7 and 14.8
SlowTicks == {0, 2, 4, 7}
Populations == { <<{"op1"}, 98>>, <<{"op1"}, 99>> }

Init ==
    \E pop \in Populations :
       \/ InitAfter(<<>>, pop[1], pop[2])
       \/ \E slow \in SlowTicks :
             InitAfter(Script(warmup_samples, slow), pop[1], pop[2])

(* ------------------------------------------------------------------ *)
(* The host: players, wall clock                                       *)
(* ------------------------------------------------------------------ *)
\* players without a name in the model join or leave (on_player_join and
\* on_player_quit change nothing for them)
CrowdChange(n) ==
    /\ n # crowd
    /\ crowd' = n
    /\ UNCHANGED << windowVars, aggressive_mode, last_optimization, loaded_chunks,
                    viewVars, counterVars, last_lag_alert, healthVars, clock,
                    online_players, performance_viewers, unreachable, schedVars, alerts,
                    reported >>

\* time.time() moves on while no tick runs
ClockJump(ms) ==
    /\ clock' = clock + ms
    /\ UNCHANGED << windowVars, aggressive_mode, last_optimization, loaded_chunks,
                    viewVars, counterVars, last_lag_alert, healthVars,
                    online_players, crowd, performance_viewers, unreachable, schedVars, alerts, reported >>

(* ------------------------------------------------------------------ *)
(* Optimization actions                                                *)
(* ------------------------------------------------------------------ *)
\* (mutant) one threshold for both modes
ChunkThreshold_Fixed(aggressive) == 500

ChunkThreshold(aggressive) == IF aggressive THEN 300 ELSE 500

\* (mutant) the difference taken the wrong way round
optimize_chunks_Swapped(estimated, aggressive, cleared_total) ==
    LET threshold == ChunkThreshold(aggressive)
    IN  IF estimated > threshold
        THEN [count |-> threshold - estimated, estimated |-> 0,
              total |-> cleared_total + (threshold - estimated)]
        ELSE [count |-> 0, estimated |-> estimated, total |-> cleared_total]

\* optimize_chunks: the count returned, the estimate and the total left behind
optimize_chunks(estimated, aggressive, cleared_total) ==
    LET threshold == ChunkThreshold(aggressive)
    IN  IF estimated > threshold
        THEN [count |-> estimated - threshold, estimated |-> 0,
              total |-> cleared_total + (estimated - threshold)]
        ELSE [count |-> 0, estimated |-> estimated, total |-> cleared_total]

\* optimize_entities: the count returned (and added to entities_removed_total)
optimize_entities(aggressive) == IF ~aggressive THEN 50 ELSE 100

(* ------------------------------------------------------------------ *)
(* adjust_view_distance                                                *)
(* ------------------------------------------------------------------ *)
Min(a, b) == IF a < b THEN a ELSE b
Max(a, b) == IF a > b THEN a ELSE b

\* (mutant) the increment taken from tps_critical instead of 19.5
TargetViewDistance_WrongBand(tps, current) ==
    IF TpsGE(tps, tps_critical, 1) /\ current < max_view_distance
    THEN Min(max_view_distance, current + 1)
    ELSE IF TpsLT(tps, 17, 1) /\ current > min_view_distance
    THEN Max(min_view_distance, current - 1)
    ELSE IF TpsLT(tps, tps_critical, 1)
    THEN min_view_distance
    ELSE current

\* (mutant) the decrement taken below 19.5 instead of 17.0
TargetViewDistance_NoDeadBand(tps, current) ==
    IF TpsGE(tps, 39, 2) /\ current < max_view_distance
    THEN Min(max_view_distance, current + 1)
    ELSE IF TpsLT(tps, 39, 2) /\ current > min_view_distance
    THEN Max(min_view_distance, current - 1)
    ELSE IF TpsLT(tps, tps_critical, 1)
    THEN min_view_distance
    ELSE current

\* (mutant) the critical branch tested first: a jump to the minimum
TargetViewDistance_CriticalFirst(tps, current) ==
    IF TpsLT(tps, tps_critical, 1)
    THEN min_view_distance
    ELSE IF TpsGE(tps, 39, 2) /\ current < max_view_distance
    THEN Min(max_view_distance, current + 1)
    ELSE IF TpsLT(tps, 17, 1) /\ current > min_view_distance
    THEN Max(min_view_distance, current - 1)
    ELSE current

TargetViewDistance(tps, current) ==
    IF TpsGE(tps, 39, 2) /\ current < max_view_distance
    THEN Min(max_view_distance, current + 1)
    ELSE IF TpsLT(tps, 17, 1) /\ current > min_view_distance
    THEN Max(min_view_distance, current - 1)
    ELSE IF TpsLT(tps, tps_critical, 1)
    THEN min_view_distance
    ELSE current

\* (mutant) the auto flag not read
AdjustViewDistance_IgnoreAuto ==
    /\ current_view_distance' =
          TargetViewDistance(calculate_tps(tick_times), current_view_distance)
    /\ UNCHANGED << windowVars, aggressive_mode, last_optimization, loaded_chunks,
                    auto_view_distance, counterVars, last_lag_alert, healthVars,
                    clock, online_players, crowd, performance_viewers, unreachable, schedVars,
                    alerts, reported >>

AdjustViewDistance ==
    /\ current_view_distance' =
          IF ~auto_view_distance THEN current_view_distance
          ELSE TargetViewDistance(calculate_tps(tick_times), current_view_distance)
    /\ UNCHANGED << windowVars, aggressive_mode, last_optimization, loaded_chunks,
                    auto_view_distance, counterVars, last_lag_alert, healthVars,
                    clock, online_players, crowd, performance_viewers, unreachable, schedVars, alerts, reported >>

(* ------------------------------------------------------------------ *)
(* /viewdistance [distance | auto]                                     *)
(* ------------------------------------------------------------------ *)
\* A command argument is a sequence of characters.
UpperChars == << "A","B","C","D","E","F","G","H","I","J","K","L","M",
                 "N","O","P","Q","R","S","T","U","V","W","X","Y","Z" >>
LowerChars == << "a","b","c","d","e","f","g","h","i","j","k","l","m",
                 "n","o","p","q","r","s","t","u","v","w","x","y","z" >>
DigitChars == << "0","1","2","3","4","5","6","7","8","9" >>

\* str.lower()
LowerChar(c) ==
    IF \E i \in DOMAIN UpperChars : UpperChars[i] = c
    THEN LowerChars[CHOOSE i \in DOMAIN UpperChars : UpperChars[i] = c]
    ELSE c
Lower(str) == [i \in DOMAIN str |-> LowerChar(str[i])]

IsDigit(c) == \E i \in DOMAIN DigitChars : DigitChars[i] = c
DigitValue(c) == (CHOOSE i \in DOMAIN DigitChars : DigitChars[i] = c) - 1

RECURSIVE DigitsValue(_, _)
DigitsValue(str, acc) ==
    IF str = <<>> THEN acc
    ELSE DigitsValue(Tail(str), 10 * acc + DigitValue(Head(str)))

\* (mutant) int(str) dropping the sign
ParseInt_Unsigned(str) ==
    LET signed == str # <<>> /\ Head(str) \in {"-", "+"}
        digits == IF signed THEN Tail(str) ELSE str
    IN  IF digits # <<>> /\ \A i \in DOMAIN digits : IsDigit(digits[i])
        THEN [ok |-> TRUE, value |-> DigitsValue(digits, 0)]
        ELSE [ok |-> FALSE, value |-> 0]

\* int(str): an optional sign and decimal digits, ValueError otherwise
ParseInt(str) ==
    LET signed == str # <<>> /\ Head(str) \in {"-", "+"}
        digits == IF signed THEN Tail(str) ELSE str
    IN  IF digits # <<>> /\ \A i \in DOMAIN digits : IsDigit(digits[i])
        THEN [ok |-> TRUE,
              value |-> IF signed /\ Head(str) = "-"
                        THEN 0 - DigitsValue(digits, 0)
                        ELSE DigitsValue(digits, 0)]
        ELSE [ok |-> FALSE, value |-> 0]

\* (mutant) the range check without its upper bound
ViewDistanceInRange_NoUpper(vd) == ~(vd < min_view_distance)

\* the range check of handle_viewdistance_command
ViewDistanceInRange(vd) == ~(vd < min_view_distance \/ vd > max_view_distance)

\* handle_viewdistance_command(sender, args): the value returned (ok) and
\* the view distance and the auto flag it leaves
handle_viewdistance_command(has_permission, args, current, auto) ==
    LET parsed == ParseInt(args[1])
    IN  IF ~has_permission
        THEN [ok |-> FALSE, current |-> current, auto |-> auto]
        ELSE IF Len(args) = 0
        THEN [ok |-> TRUE, current |-> current, auto |-> auto]
        ELSE IF Lower(args[1]) = << "a", "u", "t", "o" >>
        THEN [ok |-> TRUE, current |-> current, auto |-> ~auto]
        ELSE IF ~parsed.ok
        THEN [ok |-> FALSE, current |-> current, auto |-> auto]
        ELSE IF ~ViewDistanceInRange(parsed.value)
        THEN [ok |-> FALSE, current |-> current, auto |-> auto]
        ELSE [ok |-> TRUE, current |-> parsed.value, auto |-> FALSE]

HandleViewDistanceCommand(has_permission, args) ==
    LET r == handle_viewdistance_command(has_permission, args,
                                         current_view_distance, auto_view_distance)
    IN  /\ current_view_distance' = r.current
        /\ auto_view_distance' = r.auto
        /\ UNCHANGED << windowVars, aggressive_mode, last_optimization,
                        loaded_chunks, counterVars, last_lag_alert, healthVars,
                        clock, online_players, crowd, performance_viewers, unreachable, schedVars, alerts, reported >>

(* ------------------------------------------------------------------ *)
(* emergency_crash_recovery and its delayed restore_normal             *)
(* ------------------------------------------------------------------ *)
\* (mutant) restore_normal leaving a manual override alone
RestoredViewDistance_KeepManual(auto, current) ==
    IF auto THEN base_view_distance ELSE current

\* what restore_normal assigns to current_view_distance
RestoredViewDistance(auto, current) == base_view_distance

\* (mutant) the emergency entry respecting a manual override
EmergencyViewDistance_AutoOnly(auto, current) ==
    IF auto THEN min_view_distance ELSE current

\* what emergency_crash_recovery assigns to current_view_distance
EmergencyViewDistance(auto, current) == min_view_distance

\* The body of emergency_crash_recovery. send_raises: player.send_message
\* raises in the notification loop, so the except clause skips the scheduling.
emergency_crash_recovery(send_raises) ==
    LET chunks == optimize_chunks(loaded_chunks, TRUE, chunks_cleared_total)
    IN  /\ current_view_distance' =
              EmergencyViewDistance(auto_view_distance, current_view_distance)
        /\ aggressive_mode' = TRUE
        /\ loaded_chunks' = chunks.estimated
        /\ chunks_cleared_total' = chunks.total
        /\ entities_removed_total' = entities_removed_total + optimize_entities(TRUE)
        /\ memory_cleanups' = memory_cleanups + 1
        /\ restore_timers' = IF send_raises THEN restore_timers
                             ELSE Append(restore_timers, tick + restore_delay)

\* restore_normal, run by the scheduler when its delay has passed
RestoreNormal ==
    /\ restore_timers # <<>>
    /\ Head(restore_timers) <= tick
    /\ restore_timers' = Tail(restore_timers)
    /\ current_view_distance' =
          RestoredViewDistance(auto_view_distance, current_view_distance)
    /\ aggressive_mode' = FALSE
    /\ UNCHANGED << windowVars, last_optimization, loaded_chunks,
                    auto_view_distance, counterVars, last_lag_alert, healthVars,
                    clock, online_players, crowd, performance_viewers, unreachable, tick, alerts, reported >>

\* the scheduler's tick counter moves on; a due task runs before it does
AdvanceTick ==
    /\ \A i \in DOMAIN restore_timers : restore_timers[i] > tick
    /\ tick' = tick + SchedulerStep
    /\ UNCHANGED << windowVars, aggressive_mode, last_optimization, loaded_chunks,
                    viewVars, counterVars, last_lag_alert, healthVars,
                    clock, online_players, crowd, performance_viewers, unreachable, restore_timers, alerts, reported >>

(* ------------------------------------------------------------------ *)
(* monitor_overload and fast_optimization_check                        *)
(* ------------------------------------------------------------------ *)
\* (mutant) the chunk estimate left out of the overload test
Overloaded_PlayersOnly == OnlineCount >= max_players_critical

Overloaded ==
    \/ OnlineCount >= max_players_critical
    \/ loaded_chunks >= max_chunks_critical

\* (mutant) the fast path taken below tps_warning
CriticalTps_BelowWarning ==
    auto_optimize /\ TpsLT(calculate_tps(tick_times), tps_warning, 1)

CriticalTps == auto_optimize /\ TpsLT(calculate_tps(tick_times), tps_critical, 1)

MonitorOverload(send_raises) ==
    /\ send_raises => (Overloaded /\ AdminsOnline # {})
    /\ IF Overloaded
       THEN emergency_crash_recovery(send_raises)
       ELSE UNCHANGED << current_view_distance, aggressive_mode, loaded_chunks,
                         chunks_cleared_total, entities_removed_total,
                         memory_cleanups, restore_timers >>
    /\ UNCHANGED << windowVars, last_optimization, auto_view_distance,
                    total_optimizations, last_lag_alert, healthVars,
                    clock, online_players, crowd, performance_viewers, unreachable, tick, alerts, reported >>

FastOptimizationCheck(send_raises) ==
    /\ send_raises => (CriticalTps /\ AdminsOnline # {})
    /\ IF CriticalTps
       THEN emergency_crash_recovery(send_raises)
       ELSE UNCHANGED << current_view_distance, aggressive_mode, loaded_chunks,
                         chunks_cleared_total, entities_removed_total,
                         memory_cleanups, restore_timers >>
    /\ UNCHANGED << windowVars, last_optimization, auto_view_distance,
                    total_optimizations, last_lag_alert, healthVars,
                    clock, online_players, crowd, performance_viewers, unreachable, tick, alerts, reported >>

(* ------------------------------------------------------------------ *)
(* auto_optimize_task, cleanup_chunks, /optimize                       *)
(* ------------------------------------------------------------------ *)
AutoOptimizeDue(tps, now, last) ==
    TpsLT(tps, tps_warning, 1) \/ now - last >= optimization_interval * 1000

AutoOptimizeTask ==
    /\ IF auto_optimize
          /\ AutoOptimizeDue(calculate_tps(tick_times), clock, last_optimization)
       THEN LET chunks == optimize_chunks(loaded_chunks, aggressive_mode,
                                          chunks_cleared_total)
                entities == optimize_entities(aggressive_mode)
            IN  /\ loaded_chunks' = chunks.estimated
                /\ chunks_cleared_total' = chunks.total
                /\ entities_removed_total' = entities_removed_total + entities
                /\ last_optimization' = clock
                /\ total_optimizations' = total_optimizations + 1
                /\ reported' = [chunks |-> chunks.count, entities |-> entities]
       ELSE UNCHANGED << loaded_chunks, chunks_cleared_total,
                         entities_removed_total, last_optimization,
                         total_optimizations, reported >>
    /\ UNCHANGED << windowVars, aggressive_mode, viewVars, memory_cleanups,
                    last_lag_alert, healthVars, clock, online_players, crowd,
                    performance_viewers, unreachable, schedVars, alerts >>

CleanupChunks ==
    /\ IF auto_optimize /\ loaded_chunks > 500
       THEN /\ loaded_chunks' = 0
            /\ chunks_cleared_total' = chunks_cleared_total + (loaded_chunks - 500)
       ELSE UNCHANGED << loaded_chunks, chunks_cleared_total >>
    /\ UNCHANGED << windowVars, aggressive_mode, last_optimization, viewVars,
                    total_optimizations, entities_removed_total, memory_cleanups,
                    last_lag_alert, healthVars, clock, online_players, crowd,
                    performance_viewers, unreachable, schedVars, alerts, reported >>

\* periodic_memory_cleanup: optimize_memory (gc.collect()) when auto_optimize
PeriodicMemoryCleanup ==
    /\ memory_cleanups' = IF auto_optimize THEN memory_cleanups + 1
                          ELSE memory_cleanups
    /\ UNCHANGED << windowVars, aggressive_mode, last_optimization, loaded_chunks,
                    viewVars, total_optimizations, chunks_cleared_total,
                    entities_removed_total, last_lag_alert, healthVars, clock,
                    online_players, crowd, performance_viewers, unreachable, schedVars,
                    alerts, reported >>

\* /optimize full: optimize_chunks, optimize_entities, optimize_memory
OptimizeFull ==
    LET chunks == optimize_chunks(loaded_chunks, aggressive_mode,
                                  chunks_cleared_total)
    IN  /\ loaded_chunks' = chunks.estimated
        /\ chunks_cleared_total' = chunks.total
        /\ entities_removed_total' =
              entities_removed_total + optimize_entities(aggressive_mode)
        /\ memory_cleanups' = memory_cleanups + 1
        /\ UNCHANGED << windowVars, aggressive_mode, last_optimization, viewVars,
                        total_optimizations, last_lag_alert, healthVars,
                        clock, online_players, crowd, performance_viewers, unreachable,
                        schedVars, alerts, reported >>

(* ------------------------------------------------------------------ *)
(* /optimize [status | full | view <player>], /tps, /lag, on_command   *)
(* ------------------------------------------------------------------ *)
\* player.name of the named players, as characters
PlayerChars(p) == IF p = "op1" THEN << "o", "p", "1" >> ELSE << "p", "2" >>

\* the first online player whose name matches target_name whatever the case
\* (names are unique); {} when there is none
TargetPlayer(target_name) ==
    { p \in online_players : Lower(PlayerChars(p)) = Lower(target_name) }

\* handle_performance_view(sender, args): the value returned
handle_performance_view(args) ==
    Len(args) < 2 \/ TargetPlayer(args[2]) # {}

HandlePerformanceView(args) ==
    /\ performance_viewers' =
          IF Len(args) < 2 \/ TargetPlayer(args[2]) = {}
          THEN performance_viewers
          ELSE LET target == CHOOSE p \in TargetPlayer(args[2]) : TRUE
               IN  IF target \in performance_viewers
                   THEN performance_viewers \ {target}
                   ELSE performance_viewers \cup {target}
    /\ UNCHANGED << windowVars, aggressive_mode, last_optimization, loaded_chunks,
                    viewVars, counterVars, last_lag_alert, healthVars, clock,
                    online_players, crowd, unreachable, schedVars, alerts, reported >>

OptimizeAction(args) == Lower(args[1])
IsFull(args) == Len(args) > 0 /\ OptimizeAction(args) = << "f", "u", "l", "l" >>
IsView(args) == Len(args) > 0 /\ OptimizeAction(args) = << "v", "i", "e", "w" >>
IsStatus(args) ==
    Len(args) > 0 /\ OptimizeAction(args) = << "s", "t", "a", "t", "u", "s" >>

\* handle_optimize_command(sender, args): the value returned
handle_optimize_command(has_permission, args) ==
    IF ~has_permission THEN FALSE
    ELSE IF Len(args) = 0 THEN TRUE
    ELSE IF IsStatus(args) \/ IsFull(args) THEN TRUE
    ELSE IF IsView(args) THEN handle_performance_view(args)
    ELSE FALSE

HandleOptimizeCommand(has_permission, args) ==
    IF has_permission /\ IsFull(args) THEN OptimizeFull
    ELSE IF has_permission /\ IsView(args) THEN HandlePerformanceView(args)
    ELSE UNCHANGED stateVars

\* handle_tps_command and handle_lag_command: a message to the sender; the
\* value returned does not depend on the sender
handle_tps_command(has_permission) == TRUE
handle_lag_command(has_permission) == TRUE

\* on_command(sender, command, args): the value returned
on_command(name, has_permission, args) ==
    IF name = "optimize" THEN handle_optimize_command(has_permission, args)
    ELSE IF name = "tps" THEN handle_tps_command(has_permission)
    ELSE IF name = "lag" THEN handle_lag_command(has_permission)
    ELSE IF name = "viewdistance"
    THEN handle_viewdistance_command(has_permission, args,
             current_view_distance, auto_view_distance).ok
    ELSE FALSE

OnCommand(name, has_permission, args) ==
    IF name = "optimize" THEN HandleOptimizeCommand(has_permission, args)
    ELSE IF name = "viewdistance" THEN HandleViewDistanceCommand(has_permission, args)
    ELSE UNCHANGED stateVars

(* ------------------------------------------------------------------ *)
(* The performance viewers: on_player_join, on_player_quit,            *)
(* update_performance_display                                          *)
(* ------------------------------------------------------------------ *)
\* on_player_join: the player is online; the handler only schedules a message
PlayerJoin(p) ==
    /\ p \notin online_players
    /\ online_players' = online_players \cup {p}
    /\ UNCHANGED << windowVars, aggressive_mode, last_optimization, loaded_chunks,
                    viewVars, counterVars, last_lag_alert, healthVars, clock,
                    crowd, performance_viewers, unreachable, schedVars, alerts,
                    reported >>

\* The server stops resolving p (server.get_player(p.name) is None) before a
\* quit event for p has been delivered: the case of "if player is None" in
\* update_performance_display.
LoseConnection(p) ==
    /\ p \in online_players \ unreachable
    /\ unreachable' = unreachable \cup {p}
    /\ UNCHANGED << windowVars, aggressive_mode, last_optimization, loaded_chunks,
                    viewVars, counterVars, last_lag_alert, healthVars, clock,
                    online_players, crowd, performance_viewers, schedVars, alerts,
                    reported >>

\* on_player_quit: performance_viewers when the handler returns
on_player_quit(viewers, p) == viewers \ {p}

\* the quit event of p, delivered
PlayerQuit(p) ==
    /\ p \in online_players
    /\ online_players' = online_players \ {p}
    /\ unreachable' = unreachable \ {p}
    /\ performance_viewers' = on_player_quit(performance_viewers, p)
    /\ UNCHANGED << windowVars, aggressive_mode, last_optimization, loaded_chunks,
                    viewVars, counterVars, last_lag_alert, healthVars, clock,
                    crowd, schedVars, alerts, reported >>

\* list(self.performance_viewers): the members in some order
Orders(S) ==
    { o \in [1..Cardinality(S) -> S] :
         \A i, j \in 1..Cardinality(S) : i # j => o[i] # o[j] }

\* The loop of update_performance_display from position i of order: a member
\* for whom get_player returns None (missing) is removed, the others get
\* send_popup; a send_popup that raises (failing) ends the loop in the except
\* clause. The value is performance_viewers when the task returns.
RECURSIVE update_performance_display(_, _, _, _, _)
update_performance_display(viewers, order, i, missing, failing) ==
    IF i > Len(order) THEN viewers
    ELSE IF order[i] \in missing
    THEN update_performance_display(viewers \ {order[i]}, order, i + 1,
                                    missing, failing)
    ELSE IF order[i] \in failing THEN viewers
    ELSE update_performance_display(viewers, order, i + 1, missing, failing)

UpdatePerformanceDisplay(order, failing) ==
    /\ performance_viewers' =
          update_performance_display(performance_viewers, order, 1,
                                     unreachable, failing)
    /\ UNCHANGED << windowVars, aggressive_mode, last_optimization, loaded_chunks,
                    viewVars, counterVars, last_lag_alert, healthVars, clock,
                    online_players, crowd, unreachable, schedVars, alerts,
                    reported >>

(* ------------------------------------------------------------------ *)
(* check_server_health                                                 *)
(* ------------------------------------------------------------------ *)
\* (mutant) the top band starting at 19 instead of 19.5
HealthBand_FromNineteen(tps) ==
    IF TpsGE(tps, 19, 1) THEN 100
    ELSE IF TpsGE(tps, 18, 1) THEN 80
    ELSE IF TpsGE(tps, 15, 1) THEN 60
    ELSE 40

HealthBand(tps) ==
    IF TpsGE(tps, 39, 2) THEN 100
    ELSE IF TpsGE(tps, 18, 1) THEN 80
    ELSE IF TpsGE(tps, 15, 1) THEN 60
    ELSE 40

CheckServerHealth ==
    LET health == HealthBand(calculate_tps(tick_times))
    IN  /\ health_score' = health
        /\ health_history' = DequeAppend(health_history, health, health_history_maxlen)
        /\ UNCHANGED << windowVars, aggressive_mode, last_optimization,
                        loaded_chunks, viewVars, counterVars, last_lag_alert,
                        clock, online_players, crowd, performance_viewers, unreachable, schedVars, alerts, reported >>

(* ------------------------------------------------------------------ *)
(* Inputs of the specifications                                        *)
(* ------------------------------------------------------------------ *)
\* /viewdistance inputs: the text typed and what it stands for
VdInputs ==
    { [text |-> <<"3">>, int |-> TRUE, value |-> 3],
      [text |-> <<"4">>, int |-> TRUE, value |-> 4],
      [text |-> <<"1","0">>, int |-> TRUE, value |-> 10],
      [text |-> <<"1","2">>, int |-> TRUE, value |-> 12],
      [text |-> <<"1","3">>, int |-> TRUE, value |-> 13],
      [text |-> <<"-","5">>, int |-> TRUE, value |-> 0 - 5],
      [text |-> <<"4",".","5">>, int |-> FALSE, value |-> 0],
      [text |-> <<"f","a","r">>, int |-> FALSE, value |-> 0] }
VdArgs == { <<>>, << <<"A","u","t","o">> >> } \cup { << in.text >> : in \in VdInputs }
\* the inputs of the controller runs: a valid and an invalid distance, the toggle
VdArgsCore == { << <<"1","0">> >>, << <<"1","3">> >>, << <<"A","u","t","o">> >> }

\* every periodic task but monitor_performance is first due after the warm-up
\* (on_enable: delay >= 40 ticks, monitor_performance every tick from tick 0)
WarmedUp == Len(tick_times) >= warmup_samples

Next ==
    \/ \E d \in TickDurations :
          /\ done.ticks < MaxTicks
          /\ MonitorPerformance(d) /\ Count("ticks")
    \/ /\ WarmedUp
       /\ AdjustViewDistance /\ Keep
    \/ \E perm \in BOOLEAN, args \in VdArgsCore :
          HandleViewDistanceCommand(perm, args) /\ Keep
    \/ \E raises \in BOOLEAN :
          /\ WarmedUp
          /\ Overloaded => done.emergencies < MaxEmergencies
          /\ MonitorOverload(raises)
          /\ IF Overloaded THEN Count("emergencies") ELSE Keep
    \/ \E raises \in BOOLEAN :
          /\ WarmedUp
          /\ CriticalTps => done.emergencies < MaxEmergencies
          /\ FastOptimizationCheck(raises)
          /\ IF CriticalTps THEN Count("emergencies") ELSE Keep
    \/ RestoreNormal /\ Count("restorations")
    \/ /\ done.sched_steps < MaxSchedulerSteps
       /\ AdvanceTick /\ Count("sched_steps")

Spec == Init /\ [][Next]_vars

\* The same steps from a warmed-up server: overloaded (100 players) at TPS 20,
\* or with 99 players at TPS 14.8
InitOverride ==
    \E start \in { <<0, 99>>, <<7, 98>> } :
       InitAfter(Script(warmup_samples, start[1]), {"op1"}, start[2])

SpecOverride == InitOverride /\ [][Next]_vars

(* ------------------------------------------------------------------ *)
(* /viewdistance alone, over every input                               *)
(* ------------------------------------------------------------------ *)
\* /optimize inputs
OptimizeArgs ==
    { <<>>,
      << <<"s","t","a","t","u","s">> >>,
      << <<"F","u","l","l">> >>,
      << <<"v","i","e","w">> >>,
      << <<"v","i","e","w">>, <<"O","P","1">> >>,
      << <<"v","i","e","w">>, <<"g","h","o","s","t">> >>,
      << <<"b","o","o","s","t">> >> }

NextCommands ==
    \/ \E d \in TickDurations :
          /\ done.ticks < MaxTicks
          /\ MonitorPerformance(d) /\ Count("ticks")
    \/ \E perm \in BOOLEAN, args \in VdArgs :
          OnCommand("viewdistance", perm, args) /\ Keep
    \/ \E perm \in BOOLEAN, args \in OptimizeArgs :
          /\ (perm /\ IsFull(args)) => done.optimizations < MaxOptimizations
          /\ OnCommand("optimize", perm, args)
          /\ IF perm /\ IsFull(args) THEN Count("optimizations") ELSE Keep
    \/ \E name \in {"tps", "lag", "help"}, perm \in BOOLEAN :
          OnCommand(name, perm, <<>>) /\ Keep

SpecCommands == Init /\ [][NextCommands]_vars

(* ------------------------------------------------------------------ *)
(* The monitoring side alone: estimator, health scorer, lag alerts     *)
(* ------------------------------------------------------------------ *)
\* windows of the first ticks after on_enable
MonitorScripts ==
    { Rep(19, 50), Rep(19, 100), Rep(21, 100), Rep(5, 100) \o Rep(20, 50) }

\* The server after SteadyTicks ticks of 50 ms each with one operator online:
\* the window and the TPS history are full, check_server_health (delay 100,
\* period 100) has appended 100 each time, adjust_view_distance (delay 300,
\* period 300) has raised the view distance to its maximum, and
\* auto_optimize_task (delay 100, period 600) has run at its first call and
\* at each call 120 s or more after its last run, removing 50 entities.
SteadyOptimizations == (SteadyTicks - 100) \div 2400 + 1
InitSteady ==
    /\ tick_times = Rep(Min(SteadyTicks, tick_times_maxlen), 50)
    /\ tps_history = [i \in 1..Min(SteadyTicks, tps_history_maxlen) |-> Tps20]
    /\ last_tick = ClockAtLoad + 50 * SteadyTicks
    /\ clock = ClockAtLoad + 50 * SteadyTicks
    /\ loaded_chunks = max_chunks_per_player
    /\ last_lag_alert = 0
    /\ aggressive_mode = FALSE
    /\ last_optimization =
          ClockAtLoad + 50 * (100 + 2400 * (SteadyOptimizations - 1))
    /\ auto_view_distance = TRUE
    /\ current_view_distance =
          Min(max_view_distance, base_view_distance + SteadyTicks \div 300)
    /\ total_optimizations = SteadyOptimizations
    /\ chunks_cleared_total = 0
    /\ entities_removed_total = 50 * SteadyOptimizations
    /\ memory_cleanups = SteadyTicks \div 6000
    /\ health_score = 100
    /\ health_history = Rep(Min(SteadyTicks \div 100, health_history_maxlen), 100)
    /\ reported = [chunks |-> 0, entities |-> 50]
    /\ online_players = {"op1"}
    /\ crowd = 0
    /\ performance_viewers = {}
    /\ unreachable = {}
    /\ tick = SteadyTicks
    /\ restore_timers = <<>>
    /\ alerts = <<>>
    /\ done = [ticks |-> 0, emergencies |-> 0, restorations |-> 0,
               sched_steps |-> 0, crowd_changes |-> 0, overload_runs |-> 0,
               fast_runs |-> 0, adjust_runs |-> 0, auto_runs |-> 0, memory_runs |-> 0,
                   display_runs |-> 0,
               clock_jumps |-> 0, optimizations |-> 0, health_checks |-> 0]

InitMonitor ==
    \/ \E script \in MonitorScripts : InitAfter(script, {"op1"}, 0)
    \/ InitSteady

NextMonitor ==
    \/ \E d \in TickDurations :
          /\ done.ticks < MaxMonitorTicks
          /\ MonitorPerformance(d) /\ Count("ticks")
    \/ \E ms \in ClockJumps :
          /\ done.clock_jumps < MaxClockJumps
          /\ ClockJump(ms) /\ Count("clock_jumps")
    \/ /\ done.health_checks < MaxHealthChecks
       /\ CheckServerHealth /\ Count("health_checks")

SpecMonitor == InitMonitor /\ [][NextMonitor]_vars

(* ------------------------------------------------------------------ *)
(* The optimization actions, with the emergency that makes them        *)
(* aggressive                                                          *)
(* ------------------------------------------------------------------ *)
\* 7, 10 and 100 players: 448, 640 and 6400 chunks estimated
OptPopulations == { <<{"op1"}, 6>>, <<{"op1"}, 9>>, <<{"op1"}, 99>> }

InitOpt ==
    \E pop \in OptPopulations, slow \in {0, 7} :
       InitAfter(Script(warmup_samples, slow), pop[1], pop[2])

\* runs of auto_optimize_task, /optimize full and periodic_memory_cleanup
OptimizationRuns == done.auto_runs + done.optimizations + done.memory_runs

NextOpt ==
    \/ \E d \in TickDurations :
          /\ done.ticks < MaxTicks
          /\ MonitorPerformance(d) /\ Count("ticks")
    \/ \E ms \in ClockJumps :
          /\ ms > 0 /\ done.clock_jumps < MaxClockJumps
          /\ ClockJump(ms) /\ Count("clock_jumps")
    \/ /\ OptimizationRuns < MaxOptimizations
       /\ AutoOptimizeTask /\ Count("auto_runs")
    \/ /\ OptimizationRuns < MaxOptimizations
       /\ OptimizeFull /\ Count("optimizations")
    \/ CleanupChunks /\ Keep
    \/ /\ OptimizationRuns < MaxOptimizations
       /\ PeriodicMemoryCleanup /\ Count("memory_runs")
    \/ /\ Overloaded /\ done.emergencies < MaxEmergencies
       /\ MonitorOverload(FALSE) /\ Count("emergencies")
    \/ /\ CriticalTps /\ done.emergencies < MaxEmergencies
       /\ FastOptimizationCheck(FALSE) /\ Count("emergencies")

SpecOpt == InitOpt /\ [][NextOpt]_vars

(* ------------------------------------------------------------------ *)
(* The two triggers of the emergency, each run counted                 *)
(* ------------------------------------------------------------------ *)
\* 1, 78, 79 and 100 players: 64, 4992, 5056 and 6400 chunks estimated
TriggerCrowds == {0, 77, 78, 99}

InitTriggers ==
    \E others \in TriggerCrowds, slow \in {0, 4, 7} :
       InitAfter(Script(warmup_samples, slow), {"op1"}, others)

NextTriggers ==
    \/ \E d \in TickDurations :
          /\ done.ticks < MaxTicks
          /\ MonitorPerformance(d) /\ Count("ticks")
    \/ \E n \in TriggerCrowds :
          /\ done.crowd_changes < MaxCrowdChanges
          /\ CrowdChange(n) /\ Count("crowd_changes")
    \/ \E raises \in BOOLEAN :
          /\ done.overload_runs < MaxOverloadRuns
          /\ MonitorOverload(raises) /\ Count("overload_runs")
    \/ \E raises \in BOOLEAN :
          /\ done.fast_runs < MaxFastRuns
          /\ FastOptimizationCheck(raises) /\ Count("fast_runs")

SpecTriggers == InitTriggers /\ [][NextTriggers]_vars

(* ------------------------------------------------------------------ *)
(* The view-distance controller, each run counted                      *)
(* ------------------------------------------------------------------ *)
InitAdjust ==
    \E slow \in SlowTicks : InitAfter(Script(warmup_samples, slow), {"op1"}, 0)

NextAdjust ==
    \/ \E d \in TickDurations :
          /\ done.ticks < MaxTicks
          /\ MonitorPerformance(d) /\ Count("ticks")
    \/ /\ done.adjust_runs < MaxAdjustRuns
       /\ AdjustViewDistance /\ Count("adjust_runs")
    \/ \E args \in VdArgs :
          HandleViewDistanceCommand(TRUE, args) /\ Keep

SpecAdjust == InitAdjust /\ [][NextAdjust]_vars

(* ------------------------------------------------------------------ *)
(* The performance viewers: players, the toggle command, the display   *)
(* ------------------------------------------------------------------ *)
\* /optimize view, for a player of either name and for nobody online
ViewArgs ==
    { << <<"v","i","e","w">> >>,
      << <<"V","i","e","w">>, <<"O","P","1">> >>,
      << <<"v","i","e","w">>, <<"p","2">> >>,
      << <<"v","i","e","w">>, <<"g","h","o","s","t">> >> }

InitViewers ==
    \E named \in SUBSET Names :
       InitAfter(Script(warmup_samples, 0), named, 0)

NextViewers ==
    \/ \E d \in TickDurations :
          /\ done.ticks < MaxTicks
          /\ MonitorPerformance(d) /\ Count("ticks")
    \/ \E p \in Names : PlayerJoin(p) /\ Keep
    \/ \E p \in Names : LoseConnection(p) /\ Keep
    \/ \E p \in Names : PlayerQuit(p) /\ Keep
    \/ \E args \in ViewArgs : OnCommand("optimize", TRUE, args) /\ Keep
    \/ \E order \in Orders(performance_viewers),
          failing \in SUBSET (performance_viewers \ unreachable) :
          /\ done.display_runs < MaxDisplayRuns
          /\ UpdatePerformanceDisplay(order, failing) /\ Count("display_runs")

SpecViewers == InitViewers /\ [][NextViewers]_vars

(* ------------------------------------------------------------------ *)
(* The emergency and its restoration under a fair scheduler            *)
(* ------------------------------------------------------------------ *)
\* the scheduler runs restore_normal once it is due
RunDueRestore == RestoreNormal /\ Count("restorations")

\* the scheduler's tick counter moves on while a task is waiting for it
RunScheduler ==
    /\ restore_timers # <<>>
    /\ AdvanceTick /\ Count("sched_steps")

NextLive ==
    \/ \E d \in TickDurations :
          /\ done.ticks < MaxTicks
          /\ MonitorPerformance(d) /\ Count("ticks")
    \/ /\ done.adjust_runs < MaxAdjustRuns
       /\ AdjustViewDistance /\ Count("adjust_runs")
    \/ \E raises \in BOOLEAN :
          /\ Overloaded /\ done.emergencies < MaxEmergencies
          /\ MonitorOverload(raises) /\ Count("emergencies")
    \/ \E raises \in BOOLEAN :
          /\ CriticalTps /\ done.emergencies < MaxEmergencies
          /\ FastOptimizationCheck(raises) /\ Count("emergencies")
    \/ RunDueRestore
    \/ RunScheduler

\* the scheduler eventually runs every due task
SpecLive ==
    /\ InitOverride /\ [][NextLive]_vars
    /\ WF_vars(RunDueRestore) /\ WF_vars(RunScheduler)

(* ================================================================== *)
(* Claims                                                              *)
(* ================================================================== *)
CurrentTps == calculate_tps(tick_times)
EmergencyEntered == done'.emergencies > done.emergencies
RestorationFired == done'.restorations > done.restorations

\* C1: in every reachable state current_view_distance is within
\* [min_view_distance, max_view_distance] = [4, 12].
C1_ViewDistanceInRange ==
    /\ current_view_distance >= min_view_distance
    /\ current_view_distance <= max_view_distance

\* C1 witness: a restoration has fired and a manual override then set 10
C1_Witness ==
    /\ done.restorations >= 1
    /\ ~auto_view_distance
    /\ current_view_distance = 10

\* C2: at any time at most one restore_normal timer is pending (re-triggering
\* the emergency never stacks a second restoration).
C2_AtMostOneRestorePending == Len(restore_timers) <= 1

\* C3: immediately after every invocation of emergency_crash_recovery,
\* current_view_distance = min_view_distance and aggressive_mode = TRUE,
\* whatever the state before (auto_view_distance false included).
C3_EmergencyForcesMin ==
    [][EmergencyEntered =>
          /\ current_view_distance' = min_view_distance
          /\ aggressive_mode' = TRUE]_vars

\* C3 witness: the emergency was entered over a manual override
C3_Witness ==
    /\ done.emergencies >= 1
    /\ ~auto_view_distance
    /\ aggressive_mode
    /\ current_view_distance = min_view_distance

\* C4: when the delayed restoration fires it sets current_view_distance to
\* base_view_distance (8) and aggressive_mode to FALSE, whatever the view
\* distance, the overrides and the auto flag before.
C4_RestoreSetsBase ==
    [][RestorationFired =>
          /\ current_view_distance' = base_view_distance
          /\ aggressive_mode' = FALSE]_vars

\* C4 witness: a restoration has fired over a manual override
C4_Witness ==
    /\ done.restorations >= 1
    /\ ~auto_view_distance
    /\ ~aggressive_mode
    /\ current_view_distance = base_view_distance

LowTps(w) == TpsLT(calculate_tps(w), 17, 1)
HighTps(w) == TpsGE(calculate_tps(w), 39, 2)
AutoStays == auto_view_distance /\ auto_view_distance'

\* C6 as stated: while auto_view_distance stays true, no step taken with the
\* TPS below 17.0 increases current_view_distance and no step taken with the
\* TPS at least 19.5 decreases it, emergency entry and restoration included
\* (written from the side of the step: one that increases is not taken under
\* a low TPS, one that decreases is not taken under a high TPS).
C6_Original ==
    [][/\ (AutoStays /\ current_view_distance' > current_view_distance)
            => ~(LowTps(tick_times) /\ LowTps(tick_times'))
       /\ (AutoStays /\ current_view_distance' < current_view_distance)
            => ~(HighTps(tick_times) /\ HighTps(tick_times'))]_vars

\* C6 amended: while auto_view_distance stays true, no step but the delayed
\* restoration increases current_view_distance with the TPS below 17.0, and no
\* step but an emergency entry or the delayed restoration decreases it with
\* the TPS at least 19.5.
C6_MonotoneExceptEmergency ==
    [][/\ (/\ AutoStays /\ ~RestorationFired
           /\ current_view_distance' > current_view_distance)
            => ~(LowTps(tick_times) /\ LowTps(tick_times'))
       /\ (/\ AutoStays /\ ~RestorationFired /\ ~EmergencyEntered
           /\ current_view_distance' < current_view_distance)
            => ~(HighTps(tick_times) /\ HighTps(tick_times'))]_vars

\* C6 witness: adjust_view_distance has lowered the view distance under a low
\* TPS with no emergency ever entered
C6_Witness ==
    /\ auto_view_distance
    /\ LowTps(tick_times)
    /\ done.emergencies = 0
    /\ current_view_distance < base_view_distance

\* what the claims expect of a /viewdistance <text> by a permitted sender
VdAccepted(in) ==
    in.int /\ in.value >= 4 /\ in.value <= 12

\* C5: the manual override with a value v, by a sender holding the
\* permission: if v is not an integer or is outside [4, 12] the command fails
\* and changes neither current_view_distance nor auto_view_distance; if v is
\* within [4, 12] it succeeds, sets current_view_distance = v and
\* auto_view_distance = FALSE whatever the flag was.
C5_ManualOverrideValidated ==
    /\ [](\A in \in VdInputs :
            LET r == handle_viewdistance_command(TRUE, << in.text >>,
                         current_view_distance, auto_view_distance)
            IN  IF VdAccepted(in)
                THEN r.ok /\ r.current = in.value /\ r.auto = FALSE
                ELSE /\ ~r.ok
                     /\ r.current = current_view_distance
                     /\ r.auto = auto_view_distance)
    /\ [][\A in \in VdInputs :
            HandleViewDistanceCommand(TRUE, << in.text >>) =>
               IF VdAccepted(in)
               THEN current_view_distance' = in.value /\ ~auto_view_distance'
               ELSE UNCHANGED viewVars]_vars

\* C5 witness: "/viewdistance 12" has been accepted
C5_Witness ==
    /\ ~auto_view_distance
    /\ current_view_distance = 12

\* the TPS is exactly 20.0
IsTwenty(tps) == tps.num = 20 * tps.den
\* tps = min(20.0, 1 / (total / (1000 * n))) for n durations of `total` ms
IsCappedInverse(tps, n, total) ==
    IF total > 0 /\ 1000 * n >= 20 * total THEN IsTwenty(tps)
    ELSE tps.num * total = 1000 * n * tps.den
IsEstimate(tps, w) ==
    LET total == SeqSum(w)
    IN  /\ tps.den > 0
        /\ IF Len(w) < 20 \/ total = 0 THEN IsTwenty(tps)
           ELSE IsCappedInverse(tps, Len(w), total)
        /\ (Len(w) = 20 /\ w[1] > 0 /\ \A i \in DOMAIN w : w[i] = w[1])
              => IsCappedInverse(tps, 1, w[1])

HealthBands == {40, 60, 80, 100}
HealthChecked == done'.health_checks > done.health_checks
\* the band of a TPS of num / den
ExpectedHealth(tps) ==
    IF 2 * tps.num >= 39 * tps.den THEN 100
    ELSE IF tps.num >= 18 * tps.den THEN 80
    ELSE IF tps.num >= 15 * tps.den THEN 60
    ELSE 40

\* C8: check_server_health sets health_score to the band of the current TPS
\* (>= 19.5: 100, >= 18: 80, >= 15: 60, else 40) whatever the previous score
\* and history, and appends it to health_history; in every reachable state
\* health_score and every element of health_history are in {40, 60, 80, 100}
\* and health_history has at most 60 elements.
C8_HealthIsBandOfTps ==
    /\ [](/\ health_score \in HealthBands
          /\ \A i \in DOMAIN health_history : health_history[i] \in HealthBands
          /\ Len(health_history) <= 60)
    /\ [][HealthChecked =>
            /\ health_score' = ExpectedHealth(CurrentTps)
            /\ health_history' =
                  IF Len(health_history) < 60
                  THEN Append(health_history, health_score')
                  ELSE Append(Tail(health_history), health_score')]_vars

\* C8 witness: a check at a TPS below 15 on a full history of 100s
C8_Witness ==
    /\ done.health_checks >= 2
    /\ Len(health_history) = health_history_maxlen
    /\ health_history[1] = 100
    /\ health_score = 40

AutoOptimized == total_optimizations' > total_optimizations
OptimizationRan == done'.optimizations > done.optimizations \/ AutoOptimized
\* optimize_chunks run on the estimate e with the given threshold
ChunksOptimized(threshold) ==
    IF loaded_chunks > threshold
    THEN /\ loaded_chunks' = 0
         /\ chunks_cleared_total' = chunks_cleared_total + (loaded_chunks - threshold)
         /\ AutoOptimized => reported'.chunks = loaded_chunks - threshold
    ELSE /\ UNCHANGED << loaded_chunks, chunks_cleared_total >>
         /\ AutoOptimized => reported'.chunks = 0

\* C9: optimize_chunks uses threshold 300 when aggressive_mode is true and 500
\* otherwise; an estimate e above the threshold makes it return e - threshold,
\* reset the estimate to 0 and add e - threshold to chunks_cleared_total; with
\* e <= threshold it returns 0 and leaves both unchanged. Checked on its
\* calls from auto_optimize_task, /optimize full and the emergency entry
\* (which has set aggressive_mode before the call).
C9_ChunkThresholds ==
    [][/\ OptimizationRan =>
            ChunksOptimized(IF aggressive_mode THEN 300 ELSE 500)
       /\ EmergencyEntered => ChunksOptimized(300)]_vars

\* C9 witness: auto_optimize_task in aggressive mode has returned 448 - 300
C9_Witness ==
    /\ aggressive_mode
    /\ done.auto_runs >= 1
    /\ total_optimizations >= 1
    /\ reported.chunks = 148

Within60s(a, b) == a.at - b.at < 60000 /\ b.at - a.at < 60000

\* C10 as stated: of any two notify_admins_lag calls within 60 seconds of
\* each other the first sends and records last_lag_alert and the second
\* sends nothing and leaves last_lag_alert unchanged (on any two consecutive
\* calls).
C10_Original ==
    (Len(alerts) = 2 /\ Within60s(alerts[1], alerts[2])) =>
        /\ alerts[1].burst /\ alerts[1].last = alerts[1].at
        /\ ~alerts[2].burst /\ alerts[2].last = alerts[1].last

\* C10 amended: a notify_admins_lag call sends and records last_lag_alert
\* exactly when at least 60 seconds have passed since last_lag_alert, and is
\* otherwise a no-op that sends nothing and leaves last_lag_alert unchanged;
\* so a call within 60 seconds of an earlier call that sent is a no-op, no
\* two calls within 60 seconds of each other both send, and the first call
\* after load sends.
C10_CooldownFromLastBurst ==
    /\ (alerts = <<>>) = (last_lag_alert = 0)
    /\ alerts # <<>> => last_lag_alert = alerts[Len(alerts)].last
    /\ \A i \in DOMAIN alerts :
          IF alerts[i].burst THEN alerts[i].last = alerts[i].at
          ELSE alerts[i].sent = {}
    /\ Len(alerts) = 1 => alerts[1].burst
    /\ Len(alerts) = 2 =>
          /\ alerts[2].burst = (alerts[2].at - alerts[1].last >= 60000)
          /\ ~alerts[2].burst => alerts[2].last = alerts[1].last
          /\ Within60s(alerts[1], alerts[2]) => ~(alerts[1].burst /\ alerts[2].burst)

\* C10 witness: a call that sent, then a call within 60 seconds that did not
C10_Witness ==
    /\ done.ticks >= 2
    /\ Len(alerts) = 2
    /\ Within60s(alerts[1], alerts[2])
    /\ alerts[1].burst /\ alerts[1].sent # {}
    /\ ~alerts[2].burst

\* C11: a restoration timer scheduled by an earlier emergency entry is
\* cancelled or superseded by a new entry: the restoration never fires less
\* than 6000 ticks after the most recent entry, that is, never while a timer
\* scheduled by a later entry is still running.
C11_NoRestoreBeforeLastEntryIsDue ==
    [][RestorationFired =>
          \A i \in DOMAIN restore_timers' : restore_timers'[i] <= tick]_vars

\* C12: the entry actions of emergency_crash_recovery all complete even if
\* one of them raises; in particular every entry schedules the delayed
\* restoration, so none leaves aggressive_mode true with no restoration added.
C12_EntryAlwaysSchedulesRestore ==
    [][EmergencyEntered =>
          /\ aggressive_mode'
          /\ restore_timers' = Append(restore_timers, tick + restore_delay)]_vars

OverloadRan == done'.overload_runs > done.overload_runs
FastRan == done'.fast_runs > done.fast_runs
\* what every call of emergency_crash_recovery leaves
RecoveryInvoked ==
    /\ current_view_distance' = 4
    /\ aggressive_mode'
    /\ entities_removed_total' = entities_removed_total + 100
    /\ memory_cleanups' = memory_cleanups + 1

\* C13: monitor_overload invokes emergency_crash_recovery if and only if the
\* online-player count is >= 100 or the stored chunk estimate is >= 5000 when
\* it runs; when neither holds it changes no state.
C13_OverloadTriggerIff ==
    [][OverloadRan =>
          IF OnlineCount >= 100 \/ loaded_chunks >= 5000
          THEN RecoveryInvoked
          ELSE UNCHANGED stateVars]_vars

\* C13 witness: monitor_overload has entered the emergency on the chunk
\* estimate alone, with fewer than 100 players online
C13_Witness ==
    /\ done.overload_runs >= 1
    /\ done.fast_runs = 0
    /\ done.crowd_changes = 0
    /\ OnlineCount < 100
    /\ aggressive_mode

\* C14: every run of fast_optimization_check at which calculate_tps() < 15.0
\* invokes emergency_crash_recovery, whatever the player count and the chunk
\* estimate; at tps >= 15.0 it changes no state.
C14_FastPathBelowCritical ==
    [][FastRan =>
          IF CurrentTps.num < 15 * CurrentTps.den
          THEN RecoveryInvoked
          ELSE UNCHANGED stateVars]_vars

\* C14 witness: the fast path has entered the emergency with one player online
\* and 64 chunks estimated
C14_Witness ==
    /\ done.fast_runs >= 1
    /\ done.overload_runs = 0
    /\ done.crowd_changes = 0
    /\ OnlineCount = 1
    /\ aggressive_mode

AutoRan == done'.auto_runs > done.auto_runs

\* C15: auto_optimize_task runs the chunk, entity and memory optimizations
\* exactly when tps < 18.0 or more than 120 s have passed since the last run;
\* it then sets last_optimization to the current time and adds 1 to
\* total_optimizations; otherwise it changes no state.
C15_AutoOptimizeRunsAllThree ==
    [][AutoRan =>
          IF \/ CurrentTps.num < 18 * CurrentTps.den
             \/ clock - last_optimization > 120 * 1000
          THEN /\ loaded_chunks' = optimize_chunks(loaded_chunks, aggressive_mode,
                                        chunks_cleared_total).estimated
               /\ entities_removed_total' > entities_removed_total
               /\ memory_cleanups' = memory_cleanups + 1
               /\ last_optimization' = clock
               /\ total_optimizations' = total_optimizations + 1
          ELSE UNCHANGED stateVars]_vars

\* C16: total_optimizations, chunks_cleared_total and entities_removed_total
\* never decrease, whatever the step.
C16_CountersNeverDecrease ==
    [][/\ total_optimizations' >= total_optimizations
       /\ chunks_cleared_total' >= chunks_cleared_total
       /\ entities_removed_total' >= entities_removed_total]_vars

\* C16 witness: an emergency entry and an automatic optimization have both
\* added to the counters
C16_Witness ==
    /\ done.emergencies >= 1
    /\ total_optimizations >= 1
    /\ chunks_cleared_total > 0
    /\ entities_removed_total >= 150

\* an emergency entry whose notification loop raised: the scheduling that
\* follows it was skipped
TaskRaised == EmergencyEntered /\ restore_timers' = restore_timers

\* C17: a periodic task invocation in which an exception is raised leaves the
\* optimizer state exactly as it was before the invocation began.
C17_FailedTaskLeavesStateUnchanged ==
    [][TaskRaised => UNCHANGED stateVars]_vars

CommandNames == {"optimize", "tps", "lag", "viewdistance"}
CommandArgs(name) ==
    IF name = "optimize" THEN OptimizeArgs
    ELSE IF name = "viewdistance" THEN VdArgs
    ELSE { <<>> }

\* C18: every command invoked by a sender who lacks its permission returns a
\* failure and mutates no state.
C18_DeniedCommandsFail ==
    /\ [](\A name \in CommandNames : \A args \in CommandArgs(name) :
            ~on_command(name, FALSE, args))
    /\ [][\A name \in CommandNames : \A args \in CommandArgs(name) :
            OnCommand(name, FALSE, args) => UNCHANGED stateVars]_vars

AdjustRan == done'.adjust_runs > done.adjust_runs
InDeadBand(tps) == tps.num >= 17 * tps.den /\ 2 * tps.num < 39 * tps.den

\* C19: adjust_view_distance changes current_view_distance only when
\* auto_view_distance is true and the TPS is outside the dead band: with
\* auto_view_distance false, or 17.0 <= tps < 19.5, or tps >= 19.5 and the
\* view distance at its maximum, a run changes nothing; and no run changes
\* any other variable.
C19_AdjustFrame ==
    [][AdjustRan =>
          /\ (\/ ~auto_view_distance
              \/ InDeadBand(CurrentTps)
              \/ /\ 2 * CurrentTps.num >= 39 * CurrentTps.den
                 /\ current_view_distance = 12)
                => UNCHANGED stateVars
          /\ UNCHANGED << windowVars, aggressive_mode, last_optimization,
                          loaded_chunks, auto_view_distance, counterVars,
                          last_lag_alert, healthVars, clock, online_players,
                          crowd, performance_viewers, unreachable, schedVars, alerts,
                          reported >>]_vars

\* C19 witness: two runs in the dead band (TPS 18.2) have left the view
\* distance at 8
C19_Witness ==
    /\ done.adjust_runs >= 2
    /\ done.ticks = 0
    /\ InDeadBand(CurrentTps)
    /\ auto_view_distance
    /\ current_view_distance = base_view_distance

\* a manual override with a distance, by a permitted sender
OverrideIssued ==
    /\ ~auto_view_distance'
    /\ \E args \in VdArgsCore : HandleViewDistanceCommand(TRUE, args)

\* C20 as stated: only adjust_view_distance and the manual override change
\* current_view_distance; while auto_view_distance is false and no override
\* is issued it keeps its value.
C20_Original ==
    [][/\ current_view_distance' # current_view_distance
            => (AdjustViewDistance \/ OverrideIssued)
       /\ (~auto_view_distance /\ ~OverrideIssued)
            => current_view_distance' = current_view_distance]_vars

\* C20 amended: only adjust_view_distance, the manual override, the
\* emergency entry and the delayed restoration change current_view_distance;
\* while auto_view_distance is false it keeps its value in every step that is
\* none of override, emergency entry and restoration (stated on the steps
\* that change it: such a step is one of the four, and one of the three other
\* than adjust_view_distance when auto_view_distance is false; neither
\* adjust_view_distance nor the command is a counted step).
C20_OnlyControllerOverrideEmergency ==
    [][current_view_distance' # current_view_distance
          => \/ EmergencyEntered \/ RestorationFired
             \/ done' = done /\ OverrideIssued
             \/ done' = done /\ auto_view_distance /\ AdjustViewDistance]_vars

\* C20 witness: a manual 10 is still in place after ticks and scheduler
\* steps, no emergency having been entered
C20_Witness ==
    /\ ~auto_view_distance
    /\ current_view_distance = 10
    /\ done.ticks >= 1
    /\ done.sched_steps >= 1
    /\ done.emergencies = 0

\* C21: whatever timestamps the clock supplies (monotonic or wall clock),
\* every value monitor_performance has appended to tps_history lies in
\* [0, 20], and tps_history never holds more than 60 values.
C21_SamplesInRange ==
    /\ Len(tps_history) <= 60
    /\ \A i \in DOMAIN tps_history :
          /\ tps_history[i].num >= 0
          /\ tps_history[i].num <= 20 * tps_history[i].den

DisplayRan == done'.display_runs > done.display_runs
\* the quit event of p was delivered in this step
QuitDelivered(p) == p \in online_players /\ p \notin online_players'
\* the toggle command acted on an online player: added if absent, removed if
\* present
Toggled ==
    /\ done' = done
    /\ \E p \in online_players :
          performance_viewers' = IF p \in performance_viewers
                                 THEN performance_viewers \ {p}
                                 ELSE performance_viewers \cup {p}

\* C22: immediately after the quit event of p, p is not in
\* performance_viewers; immediately after every update_performance_display
\* run every member of performance_viewers is a player the server can still
\* resolve; and membership is otherwise changed only by the toggle command,
\* which adds an absent online player and removes a present one.
C22_ViewersRemovedAutomatically ==
    [][/\ \A p \in Names : QuitDelivered(p) => p \notin performance_viewers'
       /\ DisplayRan => performance_viewers' \subseteq online_players' \ unreachable'
       /\ performance_viewers' # performance_viewers
            => \/ \E p \in Names : QuitDelivered(p)
               \/ DisplayRan
               \/ Toggled]_vars

\* C23: after any emergency entry, when no further trigger occurs and the
\* scheduler eventually runs every due task, a state with aggressive_mode
\* false and current_view_distance = 8 is eventually reached; and once all
\* pending restorations have fired aggressive_mode stays false until the next
\* emergency entry.
C23_EventuallyNormal ==
    /\ aggressive_mode
          ~> (~aggressive_mode /\ current_view_distance = base_view_distance)
    /\ [][(restore_timers = <<>> /\ ~aggressive_mode /\ ~EmergencyEntered)
            => ~aggressive_mode']_vars

\* C24: one adjust_view_distance run changes current_view_distance by at
\* most 1 in either direction, for every TPS including tps < 15.0: below 15.0
\* a view distance above the minimum is decremented by 1 (the tps < 17.0
\* branch), and the tps < tps_critical branch is reached only with the view
\* distance already at min_view_distance, where it changes nothing.
C24_AtMostOneStep ==
    [][AdjustRan =>
          /\ current_view_distance' - current_view_distance \in {0 - 1, 0, 1}
          /\ (auto_view_distance /\ CurrentTps.num < 15 * CurrentTps.den) =>
                IF current_view_distance > min_view_distance
                THEN current_view_distance' = current_view_distance - 1
                ELSE /\ current_view_distance = min_view_distance
                     /\ current_view_distance' = current_view_distance]_vars

\* C24 witness: one run at TPS 14.8 has taken the view distance from 8 to 7
C24_Witness ==
    /\ done.adjust_runs = 1
    /\ done.ticks = 0
    /\ auto_view_distance
    /\ CurrentTps.num < 15 * CurrentTps.den
    /\ current_view_distance = base_view_distance - 1

\* C25: aggressive_mode is true only between an emergency entry and a
\* restoration: in every reachable state aggressive_mode = true implies that
\* at least one restore_normal timer is pending, and no operation other than
\* emergency_crash_recovery sets aggressive_mode to true.
C25_AggressiveOnlyWhileRestorePending ==
    /\ [](aggressive_mode => restore_timers # <<>>)
    /\ [][(~aggressive_mode /\ aggressive_mode') => EmergencyEntered]_vars
====
